---- MODULE Spec2Model ----
(***************************************************************************)
(* Model of response.go (package hessian): the dubbo response frame        *)
(* builder packResponse, the body parser unpackResponseBody, the           *)
(* reflection copy ReflectResponse / CopySlice, and the version resolver   *)
(* isSupportResponseAttachment / version2Int with its process-wide cache   *)
(* versionInt.                                                             *)
(*                                                                         *)
(* Strings are sequences of one-character strings, so that strings.Split   *)
(* and strconv.Atoi are modelled by what they do to the characters.        *)
(***************************************************************************)
EXTENDS Integers, Sequences, FiniteSets, TLC

VARIABLES
    \* ---- version resolver, single call (SpecVersion)
    vpc,          \* "init" | "done"
    vParts,       \* the components the version string was written from
    vOut,         \* result of isSupportResponseAttachment
    \* ---- version resolver, concurrent goroutines (SpecCache)
    versionInt,   \* the package-level map versionInt: string -> int
    gpc,          \* per goroutine: "idle" | "lookup" | "parse" | "compare"
    garg,         \* per goroutine: the version argument
    gv,           \* per goroutine: local v
    parsed,       \* strings version2Int has parsed successfully so far
    parseCount,   \* per string: how many times version2Int ran on it
    returned,     \* per goroutine: last return value ("none" before any)
    \* ---- packResponse then unpackResponseBody (Spec)
    pc,           \* "start" | "packed" | "unpacked"
    header,       \* the DubboHeader given to packResponse
    ret,          \* the ret argument given to packResponse
    encoded,      \* the values handed to encoder.Encode, in call order
    encFailed,    \* some encoder.Encode call returned an error
    buf,          \* the encoder's buffer after the header prefix
    frame,        \* the bytes packResponse returned, or NoFrame
    perr,         \* the error packResponse returned
    dest,         \* the resp argument given to unpackResponseBody
    slot,         \* the caller's variable behind the destination pointer
    respOut,      \* the *Response the caller passed, after the call
    uerr,         \* the error unpackResponseBody returned
    \* ---- one ReflectResponse call (SpecReflect)
    rpc,          \* "init" | "done"
    rIn,          \* the decoded value
    rOut,         \* the destination argument
    rSlot,        \* the caller's variable behind the destination pointer
    rErr          \* the error returned, or "panic"

vars == <<vpc, vParts, vOut, versionInt, gpc, garg, gv, parsed, parseCount,
          returned, pc, header, ret, encoded, encFailed, buf, frame, perr,
          dest, slot, respOut, uerr, rpc, rIn, rOut, rSlot, rErr>>

----------------------------------------------------------------------------
(* Bounds                                                                  *)

\* largest first component of the densely enumerated a.b.c versions
MaxMajor == 3
\* largest second/third component of the densely enumerated a.b.c versions
MaxComp == 99
\* longest component list of the sparsely enumerated version strings
MaxParts == 4
\* number of goroutines calling the resolver concurrently
NumGoroutines == 2
\* cap on the per-string parse counter
MaxParses == 2
\* longest slice handed to ReflectResponse
MaxSliceLen == 2

----------------------------------------------------------------------------
(* Strings                                                                 *)

Digits == <<"0", "1", "2", "3", "4", "5", "6", "7", "8", "9">>

IsDigit(ch) == \E i \in 1..10 : Digits[i] = ch

DigitVal(ch) == (CHOOSE i \in 1..10 : Digits[i] = ch) - 1

RECURSIVE ItoaNat(_)
ItoaNat(n) == IF n < 10 THEN <<Digits[n + 1]>>
              ELSE ItoaNat(n \div 10) \o <<Digits[(n % 10) + 1]>>

\* strconv.Itoa
Itoa(n) == IF n < 0 THEN <<"-">> \o ItoaNat(-n) ELSE ItoaNat(n)

RECURSIVE Join(_)
Join(parts) == IF Len(parts) = 0 THEN <<>>
               ELSE IF Len(parts) = 1 THEN parts[1]
               ELSE parts[1] \o <<".">> \o Join(Tail(parts))

\* strings.Split(s, "."): always at least one component, empty ones kept
RECURSIVE Split(_)
Split(s) ==
    IF \A i \in 1..Len(s) : s[i] # "."
    THEN <<s>>
    ELSE LET i == CHOOSE j \in 1..Len(s) :
                      s[j] = "." /\ \A k \in 1..(j - 1) : s[k] # "."
         IN  <<SubSeq(s, 1, i - 1)>> \o Split(SubSeq(s, i + 1, Len(s)))

RECURSIVE AtoiDigits(_, _)
AtoiDigits(s, acc) ==
    IF Len(s) = 0 THEN [err |-> FALSE, n |-> acc]
    ELSE IF ~IsDigit(s[1]) THEN [err |-> TRUE, n |-> 0]
    ELSE AtoiDigits(Tail(s), acc * 10 + DigitVal(s[1]))

\* strconv.Atoi: optional sign, then one or more decimal digits
Atoi(s) ==
    IF Len(s) = 0 THEN [err |-> TRUE, n |-> 0]
    ELSE LET signed == s[1] \in {"-", "+"}
             body   == IF signed THEN Tail(s) ELSE s
             r      == AtoiDigits(body, 0)
         IN  IF Len(body) = 0 \/ r.err THEN [err |-> TRUE, n |-> 0]
             ELSE IF s[1] = "-" THEN [err |-> FALSE, n |-> -r.n]
             ELSE r

RECURSIVE Pow10(_)
Pow10(n) == IF n <= 0 THEN 1 ELSE 10 * Pow10(n - 1)

----------------------------------------------------------------------------
(* Version resolver                                                        *)

LOWEST_VERSION_FOR_RESPONSE_ATTACHMENT == 2000200

BandLow == 2001000

BandHigh == 2060200

\* the range loop of version2Int: bad is the early "return -1"
RECURSIVE version2IntLoop(_, _, _)
version2IntLoop(varr, key, v) ==
    IF key > Len(varr) THEN [bad |-> FALSE, v |-> v]
    ELSE LET a == Atoi(varr[key])
         IN  IF a.err THEN [bad |-> TRUE, v |-> -1]
             ELSE version2IntLoop(varr, key + 1,
                                  v + a.n * Pow10((Len(varr) - key) * 2))

RECURSIVE version2IntSkipLoop(_, _, _)
version2IntSkipLoop(varr, key, v) ==
    IF key > Len(varr) THEN v
    ELSE LET a == Atoi(varr[key])
         IN  version2IntSkipLoop(varr, key + 1,
                 IF a.err THEN v ELSE v + a.n * Pow10((Len(varr) - key) * 2))

\* version2Int with the loop skipping a component Atoi rejects
version2Int_skipBad(version) ==
    LET varr == Split(version)
        v    == version2IntSkipLoop(varr, 1, 0)
    IN  IF Len(varr) = 3 THEN v * 100 ELSE v

version2Int(version) ==
    LET varr == Split(version)
        r    == version2IntLoop(varr, 1, 0)
    IN  IF r.bad THEN -1
        ELSE IF Len(varr) = 3 THEN r.v * 100 ELSE r.v

\* lines 350-353 with the upper end of the band excluded from it
compareVersion_openBand(v) ==
    IF v >= BandLow /\ v < BandHigh THEN FALSE
    ELSE v >= LOWEST_VERSION_FOR_RESPONSE_ATTACHMENT

\* lines 350-353
compareVersion(v) ==
    IF v >= BandLow /\ v <= BandHigh THEN FALSE
    ELSE v >= LOWEST_VERSION_FOR_RESPONSE_ATTACHMENT

\* the whole call against a given cache content
isSupportResponseAttachment(version, cache) ==
    IF version = <<>> THEN FALSE
    ELSE LET ok == version \in DOMAIN cache
             v  == IF ok THEN cache[version] ELSE version2Int(version)
         IN  IF ~ok /\ v = -1 THEN FALSE
             ELSE compareVersion(v)

----------------------------------------------------------------------------
(* Go values                                                               *)

EmptyMap == [k \in {} |-> <<>>]

\* a dynamically typed value: t is its Go type, n a number (the int32, the
\* byte length of a string, the length of a slice or -1 for a nil slice),
\* s a text, a a map[string]string, e the elements of a slice or array
Val(t, n, s, a, e) == [t |-> t, n |-> n, s |-> s, a |-> a, e |-> e]

Nil == Val("nil", 0, "", EmptyMap, <<>>)

Int32(n) == Val("int32", n, "", EmptyMap, <<>>)

StringOf(s, len) == Val("string", len, s, EmptyMap, <<>>)

\* java_exception.Throwable: satisfies Throwabler and error
Throwable(msg) == Val("Throwable", 0, msg, EmptyMap, <<>>)

\* an error that is no Throwabler
GoError(msg) == Val("error", 0, msg, EmptyMap, <<>>)

MapSS(m) == Val("map[string]string", 0, "", m, <<>>)

SliceOf(t, elems) == Val(t, Len(elems), "", EmptyMap, elems)

NilSlice(t) == Val(t, -1, "", EmptyMap, <<>>)

\* a non-nil pointer to a variable of type t
Ptr(t) == Val("ptr", 0, t, EmptyMap, <<>>)

IsError(v) == v.t \in {"Throwable", "error"}

SliceTypes == {"[]int32", "[]float64", "[]interface {}"}

ArrayTypes == {"[2]int32"}

MapTypes == {"map[string]string", "map[string]int32"}

\* reflect.Type.Kind
Kind(t) == IF t \in SliceTypes THEN "slice"
           ELSE IF t \in ArrayTypes THEN "array"
           ELSE IF t \in MapTypes THEN "map"
           ELSE IF t = "ptr" THEN "ptr"
           ELSE IF t = "interface {}" THEN "interface"
           ELSE "scalar"

\* reflect.Type.Elem of a slice, array or map type
ElemType(t) == IF t \in {"[]int32", "[2]int32", "map[string]int32"} THEN "int32"
               ELSE IF t = "[]float64" THEN "float64"
               ELSE IF t = "map[string]string" THEN "string"
               ELSE "interface {}"

\* reflect.Type.AssignableTo, for the types of the model
AssignableTo(from, to) == from = to \/ to = "interface {}"

----------------------------------------------------------------------------
(* Protocol constants (package hessian, const.go)                          *)

HEADER_LENGTH == 16

DEFAULT_LEN == 8388608

Response_OK == 20

SERIAL_MASK == 31

FLAG_EVENT == 32

RESPONSE_WITH_EXCEPTION == 0

RESPONSE_VALUE == 1

RESPONSE_NULL_VALUE == 2

RESPONSE_WITH_EXCEPTION_WITH_ATTACHMENTS == 3

RESPONSE_VALUE_WITH_ATTACHMENTS == 4

RESPONSE_NULL_VALUE_WITH_ATTACHMENTS == 5

DUBBO_VERSION_KEY == "dubbo"

PackageHeartbeat == "Heartbeat"

\* the header templates: flag byte and status byte
DubboResponseHeaderBytes == [flag |-> 0, status |-> Response_OK]

DubboResponseHeartbeatHeader == [flag |-> FLAG_EVENT, status |-> Response_OK]

RECURSIVE BitAnd(_, _)
BitAnd(x, y) == IF x = 0 \/ y = 0 THEN 0
                ELSE (x % 2) * (y % 2) + 2 * BitAnd(x \div 2, y \div 2)

RECURSIVE BitOr(_, _)
BitOr(x, y) == IF x = 0 THEN y
               ELSE IF y = 0 THEN x
               ELSE (IF x % 2 = 1 \/ y % 2 = 1 THEN 1 ELSE 0)
                    + 2 * BitOr(x \div 2, y \div 2)

----------------------------------------------------------------------------
(* The encoder and decoder (package hessian, encode.go / decode.go)        *)

\* the marker byte a value of type t is written with
Marker(t) == IF t = "nil" THEN "N"
             ELSE IF t = "int32" THEN "I"
             ELSE IF t = "string" THEN "S"
             ELSE IF t = "Throwable" THEN "O"
             ELSE IF t = "map[string]string" THEN "H"
             ELSE "?"

\* the type a marker byte is read back as
TypeOfMarker(m) == IF m = "N" THEN "nil"
                   ELSE IF m = "I" THEN "int32"
                   ELSE IF m = "S" THEN "string"
                   ELSE IF m = "O" THEN "Throwable"
                   ELSE IF m = "H" THEN "map[string]string"
                   ELSE "nil"

\* what Encoder.Encode appends for v
ToToken(v) == [m |-> Marker(v.t), n |-> v.n, s |-> v.s, a |-> v.a]

\* what Decoder.Decode yields for a token
FromToken(tok) == Val(TypeOfMarker(tok.m), tok.n, tok.s, tok.a, <<>>)

\* encoded length in bytes
TokLen(tok) == IF tok.m \in {"N", "I"} THEN 1
               ELSE IF tok.m = "S" THEN tok.n + 3
               ELSE IF tok.m = "O" THEN 24
               ELSE 2 + 12 * Cardinality(DOMAIN tok.a)

RECURSIVE BufLen(_)
BufLen(b) == IF Len(b) = 0 THEN 0 ELSE TokLen(b[1]) + BufLen(Tail(b))

\* the buffer after Encode was called on items[i..], the calls in fails
\* returning an error and appending nothing
RECURSIVE EncodeAll(_, _, _)
EncodeAll(items, i, fails) ==
    IF i > Len(items) THEN <<>>
    ELSE (IF i \in fails THEN <<>> ELSE <<ToToken(items[i])>>)
         \o EncodeAll(items, i + 1, fails)

\* encNull: append the null marker
encNull(b) == b \o <<ToToken(Nil)>>

\* one Decoder.Decode call at cursor pos
Decode(b, pos) ==
    IF pos > Len(b) THEN [err |-> TRUE, val |-> Nil, pos |-> pos]
    ELSE [err |-> FALSE, val |-> FromToken(b[pos]), pos |-> pos + 1]

----------------------------------------------------------------------------
(* Response, NewResponse, EnsureResponse                                   *)

\* a nil attachments map reads like the empty map it is replaced by
NewResponse(rspObj, exception, attachments) ==
    [RspObj |-> rspObj, Exception |-> exception, Attachments |-> attachments]

NoResponse == NewResponse(Nil, Nil, EmptyMap)

\* an interface{} argument: a *Response (r) or any other value (v)
ResponseBody(r) == [isResponse |-> TRUE, r |-> r, v |-> Nil]

OtherBody(v) == [isResponse |-> FALSE, r |-> NoResponse, v |-> v]

EnsureResponse(body) ==
    IF body.isResponse THEN body.r
    ELSE IF IsError(body.v) THEN NewResponse(Nil, body.v, EmptyMap)
    ELSE NewResponse(body.v, Nil, EmptyMap)

\* m[key] of a Go map: the zero value for a missing key
MapGet(m, key) == IF key \in DOMAIN m THEN m[key] ELSE <<>>

----------------------------------------------------------------------------
(* packResponse                                                            *)

TagsWithAttachments ==
    [exc |-> RESPONSE_WITH_EXCEPTION_WITH_ATTACHMENTS,
     value |-> RESPONSE_VALUE_WITH_ATTACHMENTS,
     null |-> RESPONSE_NULL_VALUE_WITH_ATTACHMENTS]

PlainTags ==
    [exc |-> RESPONSE_WITH_EXCEPTION,
     value |-> RESPONSE_VALUE,
     null |-> RESPONSE_NULL_VALUE]

\* lines 115-119: a Throwabler as it is, any other error wrapped
AsThrowable(e) == IF e.t = "Throwable" THEN e ELSE Throwable(e.s)

\* lines 100-131 with the value tested before the exception
okBodyItems_valueFirst(response, atta) ==
    LET tags == IF atta THEN TagsWithAttachments ELSE PlainTags
        main == IF response.RspObj # Nil
                THEN <<Int32(tags.value), response.RspObj>>
                ELSE IF response.Exception # Nil
                THEN <<Int32(tags.exc), AsThrowable(response.Exception)>>
                ELSE <<Int32(tags.null)>>
    IN  main \o (IF atta THEN <<MapSS(response.Attachments)>> ELSE <<>>)

\* lines 100-131 with the attachments encoded right after the tag
okBodyItems_attachmentsEarly(response, atta) ==
    LET tags == IF atta THEN TagsWithAttachments ELSE PlainTags
        att  == IF atta THEN <<MapSS(response.Attachments)>> ELSE <<>>
    IN  IF response.Exception # Nil
        THEN <<Int32(tags.exc)>> \o att \o <<AsThrowable(response.Exception)>>
        ELSE IF response.RspObj = Nil
        THEN <<Int32(tags.null)>> \o att
        ELSE <<Int32(tags.value)>> \o att \o <<response.RspObj>>

\* lines 100-131: the values encoded for a non-heartbeat OK response
okBodyItems(response, atta) ==
    LET tags == IF atta THEN TagsWithAttachments ELSE PlainTags
        main == IF response.Exception # Nil
                THEN <<Int32(tags.exc), AsThrowable(response.Exception)>>
                ELSE IF response.RspObj = Nil
                THEN <<Int32(tags.null)>>
                ELSE <<Int32(tags.value), response.RspObj>>
    IN  main \o (IF atta THEN <<MapSS(response.Attachments)>> ELSE <<>>)

\* lines 136-140: the value encoded when the status is not OK
errorBodyItems(response) ==
    IF response.Exception # Nil
    THEN <<StringOf(response.Exception.s, 4)>>
    ELSE <<response.RspObj>>

\* lines 93-141 with the heartbeat branch encoding the response data too
bodyItems_heartbeatData(hdr, response, cache) ==
    IF hdr.ResponseStatus = Response_OK
    THEN okBodyItems(response,
             isSupportResponseAttachment(
                 MapGet(response.Attachments, DUBBO_VERSION_KEY), cache))
    ELSE errorBodyItems(response)

\* lines 93-141: the values handed to encoder.Encode, in order
bodyItems(hdr, response, cache) ==
    IF hdr.ResponseStatus = Response_OK
    THEN IF hdr.Type = PackageHeartbeat
         THEN <<Nil>>
         ELSE okBodyItems(response,
                  isSupportResponseAttachment(
                      MapGet(response.Attachments, DUBBO_VERSION_KEY), cache))
    ELSE errorBodyItems(response)

\* line 146 with the header left out of the length compared
isTooLarge_bodyOnly(pkgLen) == pkgLen - HEADER_LENGTH > DEFAULT_LEN

\* line 146
isTooLarge(pkgLen) == pkgLen > DEFAULT_LEN

NoFrame == [present |-> FALSE, flag |-> 0, status |-> 0, id |-> 0,
            bodyLen |-> 0, body |-> <<>>]

\* lines 71-87: the 16 header bytes before the body length is patched in
headerBytes(hdr) ==
    LET template == IF hdr.Type = PackageHeartbeat
                    THEN DubboResponseHeartbeatHeader
                    ELSE DubboResponseHeaderBytes
    IN  [flag   |-> BitOr(template.flag, BitAnd(hdr.SerialID, SERIAL_MASK)),
         status |-> IF hdr.ResponseStatus # 0 THEN hdr.ResponseStatus
                    ELSE template.status,
         id     |-> hdr.ID]

\* the whole call; fails are the Encode calls that return an error, which
\* packResponse never looks at
packResponse(hdr, body, fails, cache) ==
    LET response  == EnsureResponse(body)
        hb        == headerBytes(hdr)
        items     == bodyItems(hdr, response, cache)
        buffer    == EncodeAll(items, 1, fails)
        byteArray == encNull(buffer)
        pkgLen    == HEADER_LENGTH + BufLen(byteArray)
    IN  [encoded   |-> items,
         encFailed |-> \E i \in 1..Len(items) : i \in fails,
         buf       |-> buffer,
         err       |-> IF isTooLarge(pkgLen) THEN "oversize" ELSE "nil",
         frame     |-> IF isTooLarge(pkgLen) THEN NoFrame
                       ELSE [present |-> TRUE, flag |-> hb.flag,
                             status |-> hb.status, id |-> hb.id,
                             bodyLen |-> pkgLen - HEADER_LENGTH,
                             body |-> byteArray]]

----------------------------------------------------------------------------
(* ReflectResponse, CopySlice, CopyMap                                     *)

\* the caller's variable of type t, holding its zero value
ZeroSlot(t) == [type |-> t, val |-> Nil]

Outcome(err, sl) == [err |-> err, slot |-> sl]

\* SetValue (package hessian): reflect's Set panics on a value that is not
\* assignable to the variable
SetValue(sl, in) ==
    IF AssignableTo(in.t, sl.type)
    THEN Outcome("nil", [sl EXCEPT !.val = in])
    ELSE Outcome("panic", sl)

\* lines 247-254: the loop, from index i on (1-based)
RECURSIVE copySliceLoop(_, _, _)
copySliceLoop(inSlice, sl, i) ==
    IF i > inSlice.n THEN Outcome("nil", sl)
    ELSE IF ~AssignableTo(ElemType(inSlice.t), ElemType(sl.type))
    THEN Outcome("type mismatch", sl)
    ELSE copySliceLoop(inSlice,
                       [sl EXCEPT !.val.e = [@ EXCEPT ![i] = inSlice.e[i]]],
                       i + 1)

\* lines 232-257; sl is the variable outSlice points to. reflect panics in
\* Value.IsNil on an array and in MakeSlice on a type that is no slice
CopySlice(inSlice, sl) ==
    IF Kind(inSlice.t) = "array" THEN Outcome("panic", sl)
    ELSE IF inSlice.n = -1 THEN Outcome("@in is nil", sl)
    ELSE IF Kind(inSlice.t) # "slice" THEN Outcome("@in is not slice", sl)
    ELSE IF Kind(sl.type) # "slice" THEN Outcome("panic", sl)
    ELSE copySliceLoop(inSlice,
             [sl EXCEPT !.val = SliceOf(sl.type, [i \in 1..inSlice.n |-> 0])], 1)

\* lines 260-294; the key type of every map of the model is string.
\* reflect.MakeMap panics on a type that is no map
CopyMap(inMap, sl) ==
    IF Kind(inMap.t) # "map" THEN Outcome("@in is not map", sl)
    ELSE IF Kind(sl.type) # "map" THEN Outcome("panic", sl)
    ELSE IF DOMAIN inMap.a = {}
    THEN Outcome("nil", [sl EXCEPT !.val = Val(sl.type, 0, "", EmptyMap, <<>>)])
    ELSE IF ~AssignableTo(ElemType(inMap.t), ElemType(sl.type))
    THEN Outcome("type mismatch",
                 [sl EXCEPT !.val = Val(sl.type, 0, "", EmptyMap, <<>>)])
    ELSE Outcome("nil", [sl EXCEPT !.val = Val(sl.type, 0, "", inMap.a, <<>>)])

\* lines 298-329; out is nil, a value that is no pointer, or a pointer to sl
ReflectResponse(in, out, sl) ==
    IF in = Nil THEN Outcome("@in is nil", sl)
    ELSE IF out = Nil THEN Outcome("@out is nil", sl)
    ELSE IF out.t # "ptr" THEN Outcome("@out should be a pointer", sl)
    ELSE IF sl.type = "interface {}" THEN SetValue(sl, in)
    ELSE IF Kind(in.t) \in {"slice", "array"} THEN CopySlice(in, sl)
    ELSE IF Kind(in.t) = "map" THEN CopyMap(in, sl)
    ELSE SetValue(sl, in)

----------------------------------------------------------------------------
(* unpackResponseBody                                                      *)

Unpacked(err, response, sl) == [err |-> err, response |-> response, slot |-> sl]

\* lines 173-182: decode the attachments at pos and store them
decodeAttachments(b, pos, response) ==
    LET d == Decode(b, pos)
    IN  IF d.err THEN [err |-> "decode", response |-> response]
        ELSE IF d.val.t = "map[string]string"
        THEN [err |-> "nil", response |-> [response EXCEPT !.Attachments = d.val.a]]
        ELSE [err |-> "wrong attachments", response |-> response]

IsTag(v, tag) == v.t = "int32" /\ v.n = tag

\* lines 156-229; resp is the destination argument, sl the variable its
\* value slot points to (when it is a pointer)
unpackResponseBody(b, resp, sl) ==
    LET d1       == Decode(b, 1)
        response == EnsureResponse(resp)
        rspType  == d1.val
        d2       == Decode(b, 2)
    IN  IF d1.err THEN Unpacked("decode", response, sl)
        ELSE IF IsTag(rspType, RESPONSE_WITH_EXCEPTION)
                \/ IsTag(rspType, RESPONSE_WITH_EXCEPTION_WITH_ATTACHMENTS)
        THEN IF d2.err THEN Unpacked("decode", response, sl)
             ELSE LET att == IF IsTag(rspType, RESPONSE_WITH_EXCEPTION_WITH_ATTACHMENTS)
                             THEN decodeAttachments(b, 3, response)
                             ELSE [err |-> "nil", response |-> response]
                  IN  IF att.err # "nil" THEN Unpacked(att.err, att.response, sl)
                      ELSE Unpacked("nil",
                               [att.response EXCEPT !.Exception =
                                    IF IsError(d2.val) THEN d2.val
                                    ELSE GoError("got exception")],
                               sl)
        ELSE IF IsTag(rspType, RESPONSE_VALUE)
                \/ IsTag(rspType, RESPONSE_VALUE_WITH_ATTACHMENTS)
        THEN IF d2.err THEN Unpacked("decode", response, sl)
             ELSE LET att == IF IsTag(rspType, RESPONSE_VALUE_WITH_ATTACHMENTS)
                             THEN decodeAttachments(b, 3, response)
                             ELSE [err |-> "nil", response |-> response]
                  IN  IF att.err # "nil" THEN Unpacked(att.err, att.response, sl)
                      ELSE LET r == ReflectResponse(d2.val, att.response.RspObj, sl)
                           IN  Unpacked(r.err, att.response, r.slot)
        ELSE IF IsTag(rspType, RESPONSE_NULL_VALUE_WITH_ATTACHMENTS)
        THEN LET att == decodeAttachments(b, 2, response)
             IN  Unpacked(att.err, att.response, sl)
        ELSE Unpacked("nil", response, sl)

----------------------------------------------------------------------------
(* Inputs of the version resolver                                          *)

NumComp(n) == [isNum |-> TRUE, n |-> n, raw |-> <<>>]

RawComp(r) == [isNum |-> FALSE, n |-> 0, raw |-> r]

\* the text of one component as it is written into the version string
CompText(c) == IF c.isNum THEN Itoa(c.n) ELSE c.raw

VersionText(parts) == Join([i \in 1..Len(parts) |-> CompText(parts[i])])

\* every a.b.c with a in 0..MaxMajor and b, c in 0..MaxComp
DenseParts ==
    { <<NumComp(a), NumComp(b), NumComp(c)>> :
          a \in 0..MaxMajor, b \in 0..MaxComp, c \in 0..MaxComp }

SparseComps ==
    { NumComp(n) : n \in {-1, 0, 2, 7, 12} }
    \cup { RawComp(r) : r \in { <<>>, <<"x">>, <<"2", "x">> } }

\* component lists of 0..MaxParts components, numeric or malformed
SparseParts ==
    UNION { [1..k -> SparseComps] : k \in 0..MaxParts }

VersionParts == DenseParts \cup SparseParts

Goroutines == 1..NumGoroutines

\* the strings the concurrent callers pass
CacheVersions ==
    { <<>>, <<"2", ".", "7", ".", "0">>, <<"2", ".", "6", ".", "2">>,
      <<"x", ".", "y", ".", "z">>, <<"2", ".", "0", ".", "2">> }

----------------------------------------------------------------------------
(* Inputs of packResponse, unpackResponseBody and ReflectResponse          *)

PackageTypes == {"Request", "Response", PackageHeartbeat}

\* unset, OK, and an error status (Response_BAD_REQUEST)
Statuses == {0, Response_OK, 40}

Headers ==
    [Type : PackageTypes, SerialID : {2}, ResponseStatus : Statuses, ID : {7}]

V270 == <<"2", ".", "7", ".", "0">>

V262 == <<"2", ".", "6", ".", "2">>

AttachmentMaps ==
    { EmptyMap,
      (DUBBO_VERSION_KEY :> V270),
      (DUBBO_VERSION_KEY :> V262),
      (DUBBO_VERSION_KEY :> <<"x">>),
      (DUBBO_VERSION_KEY :> <<>>),
      ("path" :> <<"p">>),
      (DUBBO_VERSION_KEY :> V270 @@ "path" :> <<"p">>) }

\* string lengths that put the frame at, just over and well over DEFAULT_LEN
BigLengths == {DEFAULT_LEN - 21, DEFAULT_LEN - 20, DEFAULT_LEN - 5}

\* the int32 values include the six discriminator tags' neighbours
RspObjs ==
    {Nil} \cup { Int32(n) : n \in {0, 1, 2, 4, 9} }
          \cup { StringOf("hi", 2) }
          \cup { StringOf("big", n) : n \in BigLengths }

Exceptions == {Nil, Throwable("boom"), GoError("fail")}

Rets ==
    { ResponseBody(NewResponse(o, e, a)) :
          o \in RspObjs, e \in Exceptions, a \in AttachmentMaps }
    \cup { OtherBody(v) : v \in RspObjs \cup (Exceptions \ {Nil}) }

SlotTypes == {"int32", "string", "interface {}"}

\* destinations: a *Response whose value slot is a pointer or nil, a bare
\* pointer, an error value
Dests ==
    { ResponseBody(NewResponse(Ptr(t), Nil, EmptyMap)) : t \in SlotTypes }
    \cup { ResponseBody(NewResponse(Nil, Nil, EmptyMap)) }
    \cup { OtherBody(Ptr(t)) : t \in SlotTypes }
    \cup { OtherBody(GoError("earlier")) }

\* the type of the variable a destination's value slot points to
DestSlotType(d) ==
    LET o == EnsureResponse(d).RspObj
    IN  IF o.t = "ptr" THEN o.s ELSE "interface {}"

\* the number of Encode calls one packResponse can make
MaxEncodeCalls == 3

ElemSeqs == UNION { [1..k -> {1, 2}] : k \in 0..MaxSliceLen }

ReflectIns ==
    { SliceOf(t, e) : t \in SliceTypes, e \in ElemSeqs }
    \cup { NilSlice(t) : t \in SliceTypes }
    \cup { SliceOf("[2]int32", e) : e \in [1..2 -> {1, 2}] }
    \cup { Nil, Int32(9), StringOf("hi", 2), MapSS(EmptyMap),
           MapSS(DUBBO_VERSION_KEY :> V270) }

ReflectSlotTypes ==
    SliceTypes \cup ArrayTypes \cup MapTypes \cup {"int32", "interface {}"}

ReflectOuts == {Nil, Int32(0)} \cup { Ptr(t) : t \in ReflectSlotTypes }

----------------------------------------------------------------------------
(* Variable groups and their resting values                                *)

versionVars == <<vpc, vParts, vOut>>

cacheVars == <<versionInt, gpc, garg, gv, parsed, parseCount, returned>>

packVars == <<pc, header, ret, encoded, encFailed, buf, frame, perr,
              dest, slot, respOut, uerr>>

reflectVars == <<rpc, rIn, rOut, rSlot, rErr>>

VersionCallIdle ==
    /\ vpc = "init"
    /\ vParts = <<>>
    /\ vOut = FALSE

\* var versionInt = make(map[string]int)
VersionIdle ==
    /\ versionInt = EmptyMap
    /\ gpc = [g \in Goroutines |-> "idle"]
    /\ garg = [g \in Goroutines |-> <<>>]
    /\ gv = [g \in Goroutines |-> 0]
    /\ parsed = {}
    /\ parseCount = [s \in CacheVersions |-> 0]
    /\ returned = [g \in Goroutines |-> "none"]

PackIdle ==
    /\ pc = "start"
    /\ header = [Type |-> "Response", SerialID |-> 2, ResponseStatus |-> 0, ID |-> 7]
    /\ ret = OtherBody(Nil)
    /\ encoded = <<>>
    /\ encFailed = FALSE
    /\ buf = <<>>
    /\ frame = NoFrame
    /\ perr = "nil"
    /\ dest = OtherBody(Nil)
    /\ slot = ZeroSlot("interface {}")
    /\ respOut = NoResponse
    /\ uerr = "nil"

ReflectIdle ==
    /\ rpc = "init"
    /\ rIn = Nil
    /\ rOut = Nil
    /\ rSlot = ZeroSlot("interface {}")
    /\ rErr = "nil"

----------------------------------------------------------------------------
(* Spec: packResponse on a drawn header and outcome, then                  *)
(* unpackResponseBody on the body of the frame it returned                 *)

Init == VersionCallIdle /\ VersionIdle /\ PackIdle /\ ReflectIdle

Pack ==
    /\ pc = "start"
    /\ \E hdr \in Headers, body \in Rets, fails \in SUBSET (1..MaxEncodeCalls) :
          LET r == packResponse(hdr, body, fails, versionInt)
          IN  /\ header' = hdr
              /\ ret' = body
              /\ encoded' = r.encoded
              /\ encFailed' = r.encFailed
              /\ buf' = r.buf
              /\ frame' = r.frame
              /\ perr' = r.err
    /\ pc' = "packed"
    /\ UNCHANGED <<dest, slot, respOut, uerr, versionVars, cacheVars, reflectVars>>

\* the Response EnsureResponse creates for a destination that is no
\* *Response is unreachable once the call returns: respOut stays as it was
Unpack ==
    /\ pc = "packed"
    /\ frame.present
    /\ \E d \in Dests :
          LET r == unpackResponseBody(frame.body, d, ZeroSlot(DestSlotType(d)))
          IN  /\ dest' = d
              /\ slot' = r.slot
              /\ respOut' = IF d.isResponse THEN r.response ELSE respOut
              /\ uerr' = r.err
    /\ pc' = "unpacked"
    /\ UNCHANGED <<header, ret, encoded, encFailed, buf, frame, perr,
                   versionVars, cacheVars, reflectVars>>

Next == Pack \/ Unpack

Spec == Init /\ [][Next]_vars

----------------------------------------------------------------------------
(* SpecReflect: one ReflectResponse call on a drawn value and destination  *)

InitReflect ==
    /\ rpc = "init"
    /\ rIn \in ReflectIns
    /\ rOut \in ReflectOuts
    /\ rSlot = ZeroSlot(IF rOut.t = "ptr" THEN rOut.s ELSE "interface {}")
    /\ rErr = "nil"
    /\ VersionCallIdle /\ VersionIdle /\ PackIdle

Reflect ==
    /\ rpc = "init"
    /\ rpc' = "done"
    /\ LET r == ReflectResponse(rIn, rOut, rSlot)
       IN  rSlot' = r.slot /\ rErr' = r.err
    /\ UNCHANGED <<rIn, rOut, versionVars, cacheVars, packVars>>

NextReflect == Reflect

SpecReflect == InitReflect /\ [][NextReflect]_vars

----------------------------------------------------------------------------
(* SpecVersion: one call of isSupportResponseAttachment on a drawn string  *)

InitVersion ==
    /\ vpc = "init"
    /\ vParts \in VersionParts
    /\ vOut = FALSE
    /\ VersionIdle /\ PackIdle /\ ReflectIdle

Resolve ==
    /\ vpc = "init"
    /\ vpc' = "done"
    /\ vOut' = isSupportResponseAttachment(VersionText(vParts), versionInt)
    /\ UNCHANGED <<vParts, cacheVars, packVars, reflectVars>>

NextVersion == Resolve

SpecVersion == InitVersion /\ [][NextVersion]_vars

----------------------------------------------------------------------------
(* SpecCache: goroutines calling isSupportResponseAttachment concurrently; *)
(* one action per statement that touches versionInt or returns             *)

InitCache == VersionCallIdle /\ VersionIdle /\ PackIdle /\ ReflectIdle

\* entry, lines 338-340
Call(g, version) ==
    /\ gpc[g] = "idle"
    /\ garg' = [garg EXCEPT ![g] = version]
    /\ IF version = <<>>
       THEN /\ returned' = [returned EXCEPT ![g] = "false"]
            /\ UNCHANGED gpc
       ELSE /\ gpc' = [gpc EXCEPT ![g] = "lookup"]
            /\ returned' = [returned EXCEPT ![g] = "none"]
    /\ UNCHANGED <<versionInt, gv, parsed, parseCount, versionVars, packVars, reflectVars>>

\* line 342: v, ok := versionInt[version]
Lookup(g) ==
    /\ gpc[g] = "lookup"
    /\ IF garg[g] \in DOMAIN versionInt
       THEN /\ gv' = [gv EXCEPT ![g] = versionInt[garg[g]]]
            /\ gpc' = [gpc EXCEPT ![g] = "compare"]
       ELSE /\ gv' = [gv EXCEPT ![g] = 0]
            /\ gpc' = [gpc EXCEPT ![g] = "parse"]
    /\ UNCHANGED <<versionInt, garg, parsed, parseCount, returned, versionVars, packVars, reflectVars>>

\* lines 344-347: v = version2Int(version); nothing is stored in versionInt
Parse(g) ==
    /\ gpc[g] = "parse"
    /\ LET v == version2Int(garg[g])
       IN  /\ gv' = [gv EXCEPT ![g] = v]
           /\ parseCount' = [parseCount EXCEPT
                                ![garg[g]] = IF @ < MaxParses THEN @ + 1 ELSE @]
           /\ IF v = -1
              THEN /\ gpc' = [gpc EXCEPT ![g] = "idle"]
                   /\ returned' = [returned EXCEPT ![g] = "false"]
                   /\ UNCHANGED parsed
              ELSE /\ gpc' = [gpc EXCEPT ![g] = "compare"]
                   /\ parsed' = parsed \cup {garg[g]}
                   /\ UNCHANGED returned
    /\ UNCHANGED <<versionInt, garg, versionVars, packVars, reflectVars>>

\* lines 350-353
Compare(g) ==
    /\ gpc[g] = "compare"
    /\ gpc' = [gpc EXCEPT ![g] = "idle"]
    /\ returned' = [returned EXCEPT
                       ![g] = IF compareVersion(gv[g]) THEN "true" ELSE "false"]
    /\ UNCHANGED <<versionInt, garg, gv, parsed, parseCount, versionVars, packVars, reflectVars>>

NextCache ==
    \E g \in Goroutines :
        \/ \E version \in CacheVersions : Call(g, version)
        \/ Lookup(g)
        \/ Parse(g)
        \/ Compare(g)

SpecCache == InitCache /\ [][NextCache]_vars

----------------------------------------------------------------------------
(* Claims about the version resolver                                       *)

AllNumeric(parts) == \A i \in 1..Len(parts) : parts[i].isNum

SomeMalformed(parts) == \E i \in 1..Len(parts) : ~parts[i].isNum

\* the integer a list of numeric components stands for: two decimal digits
\* per component, most significant first, times 100 for three components
RECURSIVE PositionalInt(_)
PositionalInt(parts) ==
    IF Len(parts) = 0 THEN 0
    ELSE parts[1].n * Pow10(2 * (Len(parts) - 1)) + PositionalInt(Tail(parts))

ResolvedInt(parts) ==
    IF Len(parts) = 3
    THEN (parts[1].n * 10000 + parts[2].n * 100 + parts[3].n) * 100
    ELSE PositionalInt(parts)

\* C6: a version string written from numeric components resolves to v; the
\* call answers false for 2001000 <= v <= 2060200 and otherwise answers
\* v >= LOWEST_VERSION_FOR_RESPONSE_ATTACHMENT; 2.0.10 .. 2.6.2 give false
\* and 2.6.3 gives true.
C6_BandExcluded ==
    (vpc = "done" /\ Len(vParts) > 0 /\ AllNumeric(vParts)) =>
        LET v == ResolvedInt(vParts)
        IN  /\ (v >= 2001000 /\ v <= 2060200) => vOut = FALSE
            /\ ~(v >= 2001000 /\ v <= 2060200) => (vOut = (v >= 2000200))
            /\ vParts = <<NumComp(2), NumComp(6), NumComp(3)>> => vOut = TRUE

C6_Witness ==
    /\ vpc = "done"
    /\ vParts = <<NumComp(2), NumComp(6), NumComp(2)>>
    /\ vOut = FALSE

\* C7 as stated: an empty string, a string with a malformed component, and
\* a string whose number of components is not 3, all give false.
C7_Original ==
    (vpc = "done" /\ (SomeMalformed(vParts) \/ Len(vParts) # 3)) => vOut = FALSE

\* C7 amended: an empty string and a string with a malformed component
\* (non-numeric or empty, so also a leading or trailing dot) give false; a
\* well-formed string of other than 3 components is judged by its integer
\* value like any other.
C7_MalformedUnsupported ==
    /\ (vpc = "done" /\ (Len(vParts) = 0 \/ SomeMalformed(vParts)))
           => vOut = FALSE
    /\ (vpc = "done" /\ Len(vParts) \notin {0, 3} /\ AllNumeric(vParts))
           => vOut = compareVersion(PositionalInt(vParts))

C7_Witness ==
    /\ vpc = "done"
    /\ Len(vParts) = 3
    /\ vParts[1].isNum /\ vParts[2].isNum
    /\ vParts[3] = RawComp(<<>>)
    /\ vOut = FALSE

\* C8 as stated: every string parsed successfully so far is in versionInt,
\* mapped to its integer encoding, and no string is parsed twice.
C8_CacheHoldsParsed ==
    /\ \A s \in parsed : s \in DOMAIN versionInt /\ versionInt[s] = version2Int(s)
    /\ \A s \in CacheVersions : parseCount[s] <= 1

----------------------------------------------------------------------------
(* Claims about packResponse and unpackResponseBody                        *)

TheResponse == EnsureResponse(ret)

HasException == TheResponse.Exception # Nil

HasValue == TheResponse.RspObj # Nil

VersionMarker == MapGet(TheResponse.Attachments, DUBBO_VERSION_KEY)

RECURSIVE Tokens(_)
Tokens(items) ==
    IF Len(items) = 0 THEN <<>> ELSE <<ToToken(items[1])>> \o Tokens(Tail(items))

\* C1 as stated: after an Encode call failed, packResponse returns an error
\* and no bytes.
C1_EncoderFailurePropagates ==
    (pc # "start" /\ encFailed) => (perr # "nil" /\ ~frame.present)

\* C2: for a non-heartbeat build with status OK the encoded body is one
\* tag (exception tag if an exception is present, else value tag if a value
\* is present, else null tag), then the exception or the value, then the
\* attachments map exactly when the version marker is supported, in which
\* case (and only then) the tag is from the attachment-aware set; a missing
\* marker key gives the plain set.
C2_OkBodyShape ==
    (pc # "start" /\ header.Type # "Heartbeat" /\ header.ResponseStatus = 20) =>
        LET atta == isSupportResponseAttachment(VersionMarker, versionInt)
            tag  == IF HasException
                    THEN (IF atta THEN RESPONSE_WITH_EXCEPTION_WITH_ATTACHMENTS
                          ELSE RESPONSE_WITH_EXCEPTION)
                    ELSE IF HasValue
                    THEN (IF atta THEN RESPONSE_VALUE_WITH_ATTACHMENTS
                          ELSE RESPONSE_VALUE)
                    ELSE (IF atta THEN RESPONSE_NULL_VALUE_WITH_ATTACHMENTS
                          ELSE RESPONSE_NULL_VALUE)
            n    == (IF HasException \/ HasValue THEN 2 ELSE 1)
                    + (IF atta THEN 1 ELSE 0)
        IN  /\ Len(encoded) = n
            /\ encoded[1] = Int32(tag)
            /\ HasException => encoded[2] = AsThrowable(TheResponse.Exception)
            /\ (~HasException /\ HasValue) => encoded[2] = TheResponse.RspObj
            /\ atta => encoded[n] = MapSS(TheResponse.Attachments)
            /\ DUBBO_VERSION_KEY \notin DOMAIN TheResponse.Attachments => ~atta
            /\ (frame.present /\ ~encFailed) =>
                   frame.body = Tokens(encoded) \o <<ToToken(Nil)>>

C2_Witness ==
    /\ pc = "packed"
    /\ header.Type = "Response" /\ header.ResponseStatus = 20
    /\ HasException /\ HasValue
    /\ Len(encoded) = 3
    /\ encoded[1] = Int32(RESPONSE_WITH_EXCEPTION_WITH_ATTACHMENTS)
    /\ frame.present /\ ~encFailed

\* C3 as stated: for a heartbeat header, whatever its status, exactly one
\* null marker is encoded and nothing else.
C3_Original ==
    (pc # "start" /\ header.Type = "Heartbeat") => encoded = <<Nil>>

\* C3 amended: for a heartbeat header whose status is OK, whatever the
\* outcome holds, exactly one null marker is encoded and nothing else.
C3_HeartbeatOk ==
    (pc # "start" /\ header.Type = "Heartbeat" /\ header.ResponseStatus = 20) =>
        /\ encoded = <<Nil>>
        /\ (frame.present /\ ~encFailed) =>
               frame.body = <<ToToken(Nil), ToToken(Nil)>>

C3_Witness ==
    /\ pc = "packed"
    /\ header.Type = "Heartbeat" /\ header.ResponseStatus = 20
    /\ HasException /\ HasValue
    /\ VersionMarker = V270
    /\ encoded = <<Nil>>
    /\ frame.present /\ ~encFailed

\* the destination's value slot is a pointer to a variable of the type of
\* the outcome's value
MatchingDest ==
    /\ EnsureResponse(dest).RspObj.t = "ptr"
    /\ EnsureResponse(dest).RspObj.s = TheResponse.RspObj.t

C5_OversizeRejected ==
    pc # "start" =>
        /\ (16 + BufLen(buf) + 1 > 8388608) =>
               (perr = "oversize" /\ frame = NoFrame)
        /\ frame.present =>
               /\ 16 + BufLen(frame.body) <= 8388608
               /\ frame.bodyLen = BufLen(frame.body)

C5_Witness ==
    /\ pc = "packed"
    /\ 16 + BufLen(buf) + 1 = 8388609
    /\ perr = "oversize"
    /\ frame = NoFrame

BodyHasExceptionTag ==
    /\ Len(frame.body) > 0
    /\ frame.body[1].m = "I"
    /\ frame.body[1].n \in {RESPONSE_WITH_EXCEPTION,
                            RESPONSE_WITH_EXCEPTION_WITH_ATTACHMENTS}

\* C10 as stated: when unpackResponseBody succeeds on a body with an
\* exception tag, the caller can observe the decoded exception after the
\* call, whatever kind of destination was passed.
C10_ExceptionObservable ==
    (pc = "unpacked" /\ uerr = "nil" /\ BodyHasExceptionTag) =>
        (dest.isResponse /\ respOut.Exception # Nil)

----------------------------------------------------------------------------
(* Claims about ReflectResponse                                            *)

\* the runtime type of the elements of a decoded sequence: the elements of
\* a []interface{} of the model are int32 values
RuntimeElemType(v) ==
    IF ElemType(v.t) = "interface {}" THEN "int32" ELSE ElemType(v.t)

\* C9 as stated: for a (non-nil) slice or array value and a non-nil pointer
\* that does not point to an interface{}, ReflectResponse does not crash;
\* it returns a type mismatch if the destination is no sequence or an
\* element is not assignable, and otherwise succeeds with a sequence of the
\* same length and elements.
C9_SequenceFailsClosed ==
    (rpc = "done" /\ Kind(rIn.t) \in {"slice", "array"} /\ rIn.n >= 0
        /\ rOut.t = "ptr" /\ rSlot.type # "interface {}") =>
        /\ rErr # "panic"
        /\ IF Kind(rSlot.type) \notin {"slice", "array"}
              \/ (Len(rIn.e) > 0
                  /\ ~AssignableTo(RuntimeElemType(rIn), ElemType(rSlot.type)))
           THEN rErr = "type mismatch"
           ELSE rErr = "nil" /\ rSlot.val.e = rIn.e

====
